---- MODULE Spec2Model ----
(***************************************************************************)
(* CV validator back end: the cv router (submitCV, getSubmissions,         *)
(* getSubmission), its response normalizer validateCVWithAI, and the       *)
(* "CVSubmission" table they write and read.                               *)
(*                                                                         *)
(* Text is modelled as a sequence of lexemes.  A model reply is a sequence *)
(* over ReplyTokens: the code fence, a tag, white space, complete JSON     *)
(* values and prose.  A message of the router (error, overallSummary, a    *)
(* per-field explanation) is the sequence of its words.  JavaScript and    *)
(* SQL scalars are written as their literals: "true", "false", "null".     *)
(***************************************************************************)
EXTENDS Integers, Sequences, FiniteSets, TLC

VARIABLES
    files,        \* the file system: path -> "missing" | "unreadable" | "ok"
    store,        \* the rows of table "CVSubmission"
    now,          \* the database clock behind NOW() / CURRENT_TIMESTAMP
    pc,           \* per submitCV run: the statement it is about to execute
    input,        \* per run: the validated input of the mutation
    pdfText,      \* per run: the local pdfText
    submission,   \* per run: the id of result.rows[0] after the INSERT
    vResult,      \* per run: the local validationResult
    response,     \* per run: what the mutation gave its caller
    calls,        \* per run: statements issued so far (INSERT, UPDATE, model)
    readResult,   \* what the last getSubmission / getSubmissions returned
    aiOutcome,    \* per run: how its call of model.generateContent ended
    normOutcome,  \* the normalizer alone: how the model call ended
    normalized,   \* the normalizer alone: what validateCVWithAI did with it
    upload,       \* the request to POST /api/upload and how far it has got
    uploaded,     \* the files in the uploads directory
    prompt,       \* per run: the text given to model.generateContent
    received,     \* per run: the input of the request, before the schema
    form          \* the CVForm component: its state and what it has sent

vars == <<files, store, now, pc, input, pdfText, submission, vResult,
          response, calls, readResult, aiOutcome, normOutcome, normalized,
          upload, uploaded, prompt, received, form>>

-----------------------------------------------------------------------------
(* Bounds *)

\* Longest model reply, in lexemes, the normalizer is run on.
MaxReplyLen == 4

\* Longest model reply, in lexemes, a submitCV run receives.
MaxRunReplyLen == 1

\* Number of submitCV requests in flight.
MaxRuns == 2

-----------------------------------------------------------------------------
(* Text *)

\* The code-fence marker: three backquotes.
Fence == "fence"

WS == "ws"

\* Complete JSON values a reply may hold.  Concatenating two of them, or one
\* with any other lexeme, never gives a JSON document.
ValueTokens == {"vMatch", "vMismatch", "vEmptyObject", "vNull", "vArray"}

ReplyTokens == {Fence, "json", "JSON", WS, "prose"} \cup ValueTokens

FieldKeys == {"fullName", "email", "phone", "skills", "experience"}

Contains(text, word) == \E i \in 1..Len(text) : text[i] = word

StartsWith(text, prefix) ==
    /\ Len(text) >= Len(prefix)
    /\ SubSeq(text, 1, Len(prefix)) = prefix

\* Number of leading white-space lexemes of text.
RECURSIVE LeadingWS(_)
LeadingWS(text) ==
    IF text # <<>> /\ Head(text) = WS THEN 1 + LeadingWS(Tail(text)) ELSE 0

\* Number of trailing white-space lexemes of text.
RECURSIVE TrailingWS(_)
TrailingWS(text) ==
    IF text # <<>> /\ text[Len(text)] = WS
    THEN 1 + TrailingWS(SubSeq(text, 1, Len(text) - 1))
    ELSE 0

DropLeadingWS(text) == SubSeq(text, LeadingWS(text) + 1, Len(text))

DropTrailingWS(text) == SubSeq(text, 1, Len(text) - TrailingWS(text))

\* String.prototype.trim
Trim(text) == DropTrailingWS(DropLeadingWS(text))

\* The replace of a leading fence tagged json, in either case, and of the
\* white space after it (the regular expression carries the i flag).
ReplaceLeadingJsonFence(text) ==
    IF /\ Len(text) >= 2
       /\ text[1] = Fence
       /\ text[2] \in {"json", "JSON"}
    THEN DropLeadingWS(SubSeq(text, 3, Len(text)))
    ELSE text

\* The replace of a leading fence and of the white space after it.
ReplaceLeadingFence(text) ==
    IF text # <<>> /\ text[1] = Fence
    THEN DropLeadingWS(Tail(text))
    ELSE text

\* A clean-up that leaves the closing fence in place.
KeepTrailingFence(text) == text

\* The replace of the fence that ends the text and of the white space
\* before it.
ReplaceTrailingFence(text) ==
    IF text # <<>> /\ text[Len(text)] = Fence
    THEN DropTrailingWS(SubSeq(text, 1, Len(text) - 1))
    ELSE text

\* The clean-up of the raw reply.
CleanText(text) ==
    LET trimmed == Trim(text)
        cleaned ==
            IF StartsWith(trimmed, <<Fence, "json">>)
            THEN ReplaceTrailingFence(ReplaceLeadingJsonFence(trimmed))
            ELSE IF StartsWith(trimmed, <<Fence>>)
            THEN ReplaceTrailingFence(ReplaceLeadingFence(trimmed))
            ELSE trimmed
    IN  Trim(cleaned)

-----------------------------------------------------------------------------
(* JavaScript values *)

NoProps == [k \in {} |-> "null"]

\* A value is null, an array or an object with its own properties.
JSNull == [t |-> "null", o |-> NoProps]

JSArray == [t |-> "array", o |-> NoProps]

JSObject(props) == [t |-> "object", o |-> props]

AllFields(v) == [k \in FieldKeys |-> v]

\* The JSON documents a reply may hold, parsed.
ValueOf(token) ==
    CASE token = "vMatch" ->
            JSObject([isValid |-> "true",
                      matches |-> AllFields("true"),
                      details |-> AllFields(<<"matches", "the", "CV">>),
                      overallSummary |-> <<"All", "fields", "match.">>])
      [] token = "vMismatch" ->
            JSObject([isValid |-> "false",
                      matches |-> [AllFields("true") EXCEPT !["email"] = "false"],
                      details |-> AllFields(<<"compared", "with", "the", "CV">>),
                      overallSummary |-> <<"The", "email", "differs.">>])
      [] token = "vEmptyObject" -> JSObject(NoProps)
      [] token = "vNull" -> JSNull
      [] token = "vArray" -> JSArray

\* JSON.parse: white space around one JSON value; anything else is a
\* SyntaxError.
JSONParse(text) ==
    LET body == Trim(text)
    IN  IF Len(body) = 1 /\ body[1] \in ValueTokens
        THEN [ok |-> TRUE, value |-> ValueOf(body[1])]
        ELSE [ok |-> FALSE, value |-> JSNull]

-----------------------------------------------------------------------------
(* What model.generateContent and response.text() can do *)

\* error.status of a thrown value that carries none.
NoStatus == 0

\* HTTP status of a rate-limited call.
TooManyRequests == 429

\* Smallest HTTP status the catch block treats as an API error.
MinErrorStatus == 400

Statuses == {NoStatus, 302, 404, TooManyRequests, 500}

\* The phrases the catch block looks for in error.message.
Phrases == {"JSON", "not found", "not supported", "quota"}

\* A thrown value: whether it is a SyntaxError, its status, whether it has a
\* message, and which of the phrases the message contains.  A SyntaxError is
\* what JSON parsing raises: it carries no status and its message names JSON.
ThrownErrors ==
    {e \in [syntax : BOOLEAN, status : Statuses,
            hasMsg : BOOLEAN, msg : SUBSET Phrases] :
        /\ ~e.hasMsg => (e.msg = {} /\ ~e.syntax)
        /\ e.syntax => (e.status = NoStatus /\ "JSON" \in e.msg)}

NoError == [syntax |-> FALSE, status |-> NoStatus, hasMsg |-> FALSE, msg |-> {}]

\* The SyntaxError of JSON.parse.
JSONSyntaxError ==
    [syntax |-> TRUE, status |-> NoStatus, hasMsg |-> TRUE, msg |-> {"JSON"}]

BoundedSeqs(S, n) == UNION {[1..k -> S] : k \in 0..n}

Reply(text) == [kind |-> "reply", text |-> text, err |-> NoError]

Failure(e) == [kind |-> "error", text |-> <<>>, err |-> e]

\* The outcomes of one model call: a reply text of at most n lexemes, or a
\* thrown value.
Outcomes(n) ==
    {Reply(t) : t \in BoundedSeqs(ReplyTokens, n)}
        \cup {Failure(e) : e \in ThrownErrors}

\* The tags a reply may put after its opening fence: none, json in either
\* case, or another word.
Tags == {<<>>, <<"json">>, <<"JSON">>, <<"prose">>}

Blank == {<<>>, <<WS>>}

\* Replies that are one JSON value in a code fence, with or without a tag
\* and with or without white space around each part.
FencedReplies ==
    {Reply(a \o <<Fence>> \o tag \o b \o <<v>> \o c \o <<Fence>> \o d) :
        a \in Blank, tag \in Tags, b \in Blank, v \in ValueTokens,
        c \in Blank, d \in Blank}

-----------------------------------------------------------------------------
(* validateCVWithAI *)

Returned(v) == [thrown |-> FALSE, value |-> v]

Raised == [thrown |-> TRUE, value |-> JSNull]

\* error?.message?.includes(phrase): undefined, so falsy, without a message.
MsgIncludes(e, phrase) == e.hasMsg /\ phrase \in e.msg

ParseFallback ==
    JSObject([
        isValid |-> "true",
        error |-> <<"AI", "response", "parsing", "error", "-",
                    "validation", "skipped">>,
        message |-> <<"CV", "submitted", "successfully.", "AI", "validation",
                      "temporarily", "unavailable", "due", "to", "response",
                      "format", "issues.">>,
        matches |-> AllFields("null"),
        details |-> AllFields(<<"AI", "validation", "unavailable", "-",
                                "response", "parsing", "error">>),
        overallSummary |-> <<"CV", "submission", "accepted.", "AI",
                             "validation", "temporarily", "unavailable", "due",
                             "to", "response", "parsing", "issues.", "The",
                             "AI", "returned", "an", "invalid", "format.">>])

ModelFallback ==
    JSObject([
        isValid |-> "true",
        error |-> <<"Google", "AI", "model", "not", "available", "-",
                    "validation", "skipped">>,
        message |-> <<"CV", "submitted", "successfully.", "AI", "validation",
                      "temporarily", "unavailable", "due", "to", "model",
                      "availability.">>,
        matches |-> AllFields("null"),
        details |-> AllFields(<<"AI", "validation", "unavailable", "-",
                                "model", "not", "found">>),
        overallSummary |-> <<"CV", "submission", "accepted.", "AI",
                             "validation", "temporarily", "unavailable", "due",
                             "to", "Google", "AI", "model", "not", "being",
                             "found", "or", "supported.", "Please", "check",
                             "your", "Google", "AI", "API", "key", "and",
                             "available", "models.">>])

\* The quota branch returning the object of the branch above it.
QuotaFallbackCopied == ModelFallback

QuotaFallback ==
    JSObject([
        isValid |-> "true",
        error |-> <<"Google", "AI", "quota", "exceeded", "-",
                    "validation", "skipped">>,
        message |-> <<"CV", "submitted", "successfully.", "AI", "validation",
                      "temporarily", "unavailable", "due", "to", "quota",
                      "limits.">>,
        matches |-> AllFields("null"),
        details |-> AllFields(<<"AI", "validation", "unavailable", "-",
                                "quota", "exceeded">>),
        overallSummary |-> <<"CV", "submission", "accepted.", "AI",
                             "validation", "temporarily", "unavailable", "due",
                             "to", "Google", "AI", "quota", "limits.",
                             "Please", "check", "your", "Google", "AI", "API",
                             "key", "and", "quota", "settings.">>])

ApiErrorFallback(status) ==
    JSObject([
        isValid |-> "true",
        error |-> <<"Google", "AI", "API", "error", ToString(status), "-",
                    "validation", "skipped">>,
        message |-> <<"CV", "submitted", "successfully.", "AI", "validation",
                      "temporarily", "unavailable.">>,
        matches |-> NoProps,
        details |-> NoProps,
        overallSummary |-> <<"CV", "submission", "accepted.", "AI",
                             "validation", "temporarily", "unavailable", "due",
                             "to", "API", "issues.">>])

OtherFallback ==
    JSObject([
        isValid |-> "true",
        error |-> <<"AI", "validation", "temporarily", "unavailable">>,
        message |-> <<"CV", "submitted", "successfully.", "AI", "validation",
                      "will", "be", "retried", "later.">>,
        details |-> NoProps,
        overallSummary |-> <<"CV", "submission", "accepted.", "AI",
                             "validation", "temporarily", "unavailable.">>])

\* A try block that does not trust the verdict of the model: it returns the
\* parsed object with isValid set to true.
TryBlockForcingValid(outcome) ==
    IF outcome.kind = "error"
    THEN [thrown |-> TRUE, err |-> outcome.err, value |-> JSNull]
    ELSE LET parsed == JSONParse(CleanText(outcome.text))
             v == parsed.value
         IN  IF parsed.ok
             THEN [thrown |-> FALSE, err |-> NoError,
                   value |-> IF "isValid" \in DOMAIN v.o
                             THEN JSObject([v.o EXCEPT !.isValid = "true"])
                             ELSE v]
             ELSE [thrown |-> TRUE, err |-> JSONSyntaxError, value |-> JSNull]

\* The try block: the model call, the clean-up of its text and JSON.parse.
\* It ends with the parsed value or with a thrown value.
TryBlock(outcome) ==
    IF outcome.kind = "error"
    THEN [thrown |-> TRUE, err |-> outcome.err, value |-> JSNull]
    ELSE LET parsed == JSONParse(CleanText(outcome.text))
         IN  IF parsed.ok
             THEN [thrown |-> FALSE, err |-> NoError, value |-> parsed.value]
             ELSE [thrown |-> TRUE, err |-> JSONSyntaxError, value |-> JSNull]

\* The catch block reading error.message without the optional chaining: a
\* thrown value without a message raises a TypeError inside the catch.
CatchBlockUnguarded(e) ==
    IF e.syntax /\ MsgIncludes(e, "JSON")
    THEN Returned(ParseFallback)
    ELSE IF ~e.hasMsg
    THEN Raised
    ELSE IF MsgIncludes(e, "not found") \/ MsgIncludes(e, "not supported")
    THEN Returned(ModelFallback)
    ELSE IF e.status = TooManyRequests \/ MsgIncludes(e, "quota")
    THEN Returned(QuotaFallback)
    ELSE IF e.status >= MinErrorStatus
    THEN Returned(ApiErrorFallback(e.status))
    ELSE Returned(OtherFallback)

\* The catch block without the branch for the SyntaxError of JSON.parse.
CatchBlockWithoutParseBranch(e) ==
    IF MsgIncludes(e, "not found") \/ MsgIncludes(e, "not supported")
    THEN Returned(ModelFallback)
    ELSE IF e.status = TooManyRequests \/ MsgIncludes(e, "quota")
    THEN Returned(QuotaFallback)
    ELSE IF e.status >= MinErrorStatus
    THEN Returned(ApiErrorFallback(e.status))
    ELSE Returned(OtherFallback)

\* The catch block: the branches in the order the code tests them.
CatchBlock(e) ==
    IF e.syntax /\ MsgIncludes(e, "JSON")
    THEN Returned(ParseFallback)
    ELSE IF MsgIncludes(e, "not found") \/ MsgIncludes(e, "not supported")
    THEN Returned(ModelFallback)
    ELSE IF e.status = TooManyRequests \/ MsgIncludes(e, "quota")
    THEN Returned(QuotaFallback)
    ELSE IF e.status >= MinErrorStatus
    THEN Returned(ApiErrorFallback(e.status))
    ELSE Returned(OtherFallback)

\* A normalizer that looks at the table: once it holds more than one row,
\* the reply is dropped and the result is the fallback of the last branch.
validateCVWithAIThrottled(outcome) ==
    LET t == TryBlock(outcome)
    IN  IF Cardinality(store) > 1
        THEN Returned(OtherFallback)
        ELSE IF t.thrown THEN CatchBlock(t.err) ELSE Returned(t.value)

validateCVWithAI(outcome) ==
    LET t == TryBlock(outcome)
    IN  IF t.thrown THEN CatchBlock(t.err) ELSE Returned(t.value)

-----------------------------------------------------------------------------
(* The prompt *)

\* text occurs in whole as it is: the same lexemes, side by side.
IsSubSeq(text, whole) ==
    \E i \in 0..(Len(whole) - Len(text)) :
        SubSeq(whole, i + 1, i + Len(text)) = text

\* Array.prototype.join with a comma and a space.
RECURSIVE Join(_)
Join(list) ==
    IF list = <<>>
    THEN <<>>
    ELSE IF Len(list) = 1
    THEN <<list[1]>>
    ELSE <<list[1], ", ">> \o Join(Tail(list))

\* The template of the prompt with the form data and the CV content in it.
Prompt(formData, pdfContent) ==
    <<"Please", "compare", "the", "following", "form", "data", "with", "the",
      "CV", "content", "and", "validate", "if", "they", "match.",
      "Form", "Data:",
      "-", "Full", "Name:", formData.fullName,
      "-", "Email:", formData.email,
      "-", "Phone:", formData.phone,
      "-", "Skills:">> \o Join(formData.skills) \o
    <<"-", "Experience:", formData.experience,
      "CV", "Content:">> \o pdfContent \o
    <<"Please", "analyze", "and", "return", "a", "JSON", "response", "with",
      "the", "following", "structure:", "{isValid, matches, details,",
      "overallSummary}">>

\* A prompt that carries the first lexemes of the CV content only.
FullPromptCappingText(formData, pdfContent) ==
    <<"You", "are", "a", "CV", "validation", "assistant.">>
        \o Prompt(formData, SubSeq(pdfContent, 1, 8))
        \o <<"Please", "respond", "with", "ONLY", "a", "valid", "JSON",
             "object,", "no", "additional", "text.">>

\* The prompt between the system instruction and the closing instruction.
FullPrompt(formData, pdfContent) ==
    <<"You", "are", "a", "CV", "validation", "assistant.", "Compare", "form",
      "data", "with", "CV", "content", "and", "return", "structured", "JSON",
      "responses.">>
        \o Prompt(formData, pdfContent)
        \o <<"Please", "respond", "with", "ONLY", "a", "valid", "JSON",
             "object,", "no", "additional", "text.">>

-----------------------------------------------------------------------------
(* The file system, the requests and the table *)

Paths == {"/uploads/cv-1.pdf", "/uploads/cv-2.pdf"}

\* A path names no file, a file that fs.access finds and fs.readFile cannot
\* read, or a readable file.
FileStates == {"missing", "unreadable", "ok"}

\* The byte length of the file at a path.
FileSize(path) == IF path = "/uploads/cv-1.pdf" THEN 0 ELSE 2048

\* Inputs that pass cvSubmissionSchema.
Inputs ==
    {[fullName |-> "Jane Doe", email |-> "jane@x.com", phone |-> "+15551234567",
      skills |-> <<"Go", "SQL">>, experience |-> "5 years backend.",
      pdfPath |-> "/uploads/cv-1.pdf"],
     [fullName |-> "John Roe", email |-> "john@y.org", phone |-> "+15557654321",
      skills |-> <<"TypeScript">>, experience |-> "2 years frontend.",
      pdfPath |-> "/uploads/cv-2.pdf"]}

\* The characters of the strings a request may give as its email, in
\* lexemes: names, the at sign and the dot.
EmailLexemes(s) ==
    CASE s = "jane@x.com" -> <<"jane", "@", "x", ".", "com">>
      [] s = "john@y.org" -> <<"john", "@", "y", ".", "org">>
      [] s = "jane.x.com" -> <<"jane", ".", "x", ".", "com">>
      [] s = "jane@" -> <<"jane", "@">>
      [] OTHER -> <<>>

\* z.string().email(): one at sign, a name before it and, after it, a
\* domain with a dot between two names.
IsEmail(s) ==
    LET l == EmailLexemes(s)
        ats == {i \in 1..Len(l) : l[i] = "@"}
    IN  /\ Cardinality(ats) = 1
        /\ LET a == CHOOSE i \in ats : TRUE
           IN  /\ a > 1
               /\ \E d \in (a + 2)..(Len(l) - 1) : l[d] = "."

SchemaKeys ==
    {"fullName", "email", "phone", "skills", "experience", "pdfPath"}

\* A schema that takes any string as an email.
cvSubmissionSchemaAnyEmail(raw) ==
    /\ SchemaKeys \subseteq DOMAIN raw
    /\ raw.fullName # ""
    /\ raw.phone # ""
    /\ Len(raw.skills) >= 1
    /\ raw.experience # ""

\* cvSubmissionSchema: whether the input parses.  A key the request does
\* not have is a key outside the domain of the record.
cvSubmissionSchema(raw) ==
    /\ SchemaKeys \subseteq DOMAIN raw
    /\ raw.fullName # ""
    /\ IsEmail(raw.email)
    /\ raw.phone # ""
    /\ Len(raw.skills) >= 1
    /\ raw.experience # ""

\* Requests that break one rule of the schema each.
MalformedInputs ==
    LET good == [fullName |-> "Jane Doe", email |-> "jane@x.com",
                 phone |-> "+15551234567", skills |-> <<"Go", "SQL">>,
                 experience |-> "5 years backend.",
                 pdfPath |-> "/uploads/cv-1.pdf"]
    IN  {[good EXCEPT !.fullName = ""],
         [good EXCEPT !.email = "jane.x.com"],
         [good EXCEPT !.email = "jane@"],
         [good EXCEPT !.phone = ""],
         [good EXCEPT !.skills = <<>>],
         [good EXCEPT !.experience = ""],
         [k \in SchemaKeys \ {"pdfPath"} |-> good[k]]}

NoInput ==
    [fullName |-> "", email |-> "", phone |-> "", skills |-> <<>>,
     experience |-> "", pdfPath |-> ""]

Runs == 1..MaxRuns

\* A placeholder that does not record the length of the buffer.
extractPDFTextWithoutSize(length) ==
    <<"[PDF", "Content", "Placeholder]", "This", "is", "a", "placeholder",
      "for", "PDF", "text", "extraction.">>

\* The placeholder text, which records the byte length of the buffer.
extractPDFText(length) ==
    <<"[PDF", "Content", "Placeholder", "-", "File", "size:", ToString(length),
      "bytes]", "This", "is", "a", "placeholder", "for", "PDF", "text",
      "extraction.">>

\* A JSONB column: SQL NULL, or the document of a value.
SQLNull == [isNull |-> TRUE, doc |-> JSNull]

\* JSON.stringify of a value, as stored in a JSONB column.  Every value of
\* the model is made of strings, null, arrays and objects, which JSON holds
\* as they are.
JSONStringify(v) == [isNull |-> FALSE, doc |-> v]

\* validationResult.isValid as the parameter of a BOOLEAN column: a missing
\* property is undefined, which the driver sends as NULL.
IsValidParam(v) == IF "isValid" \in DOMAIN v.o THEN v.o.isValid ELSE "null"

\* The row of a table whose validated column has no default.
NewRowWithoutDefault(id, inp, text, time) ==
    [id |-> id,
     fullName |-> inp.fullName, email |-> inp.email, phone |-> inp.phone,
     skills |-> inp.skills, experience |-> inp.experience,
     pdfUrl |-> inp.pdfPath, pdfContent |-> text,
     validated |-> "null",
     validationResult |-> [isNull |-> TRUE, doc |-> JSNull],
     createdAt |-> time, updatedAt |-> time]

\* The row an INSERT makes: the column defaults of CREATE TABLE fill what the
\* statement does not name.
NewRow(id, inp, text, time) ==
    [id |-> id,
     fullName |-> inp.fullName, email |-> inp.email, phone |-> inp.phone,
     skills |-> inp.skills, experience |-> inp.experience,
     pdfUrl |-> inp.pdfPath, pdfContent |-> text,
     validated |-> "false",
     validationResult |-> SQLNull,
     createdAt |-> time, updatedAt |-> time]

\* An id generator that gives the id of the latest row again.
FreshIdRepeating == IF store = {} THEN 1 ELSE Cardinality(store)

\* uuid_generate_v4: an id no row has.
FreshId == Cardinality(store) + 1

\* A SELECT without its WHERE clause.
RowsUnfiltered(id) == store

RowsWithId(id) == {row \in store : row.id = id}

\* An UPDATE that does not set validated.
UpdateRowsKeepingValidated(id, validated, result, time) ==
    {IF row.id = id
     THEN [row EXCEPT !.validationResult = result, !.updatedAt = time]
     ELSE row : row \in store}

\* An UPDATE without its WHERE clause: it sets the outcome of every row.
UpdateRowsWithoutWhere(id, validated, result, time) ==
    {[row EXCEPT !.validated = validated,
                 !.validationResult = result,
                 !.updatedAt = time] : row \in store}

\* The rows an UPDATE ... WHERE id = $3 leaves in the table.
UpdateRows(id, validated, result, time) ==
    {IF row.id = id
     THEN [row EXCEPT !.validated = validated,
                      !.validationResult = result,
                      !.updatedAt = time]
     ELSE row : row \in store}

NoResponse == [kind |-> "pending", cause |-> "", submission |-> {},
               validationResult |-> JSNull]

\* The catch of submitCV rethrows: the caller gets an error.
ErrorResponse(cause) ==
    [kind |-> "error", cause |-> cause, submission |-> {},
     validationResult |-> JSNull]

SuccessResponse(rows, result) ==
    [kind |-> "success", cause |-> "", submission |-> rows,
     validationResult |-> result]

NoCalls == [insert |-> 0, update |-> 0, model |-> 0]

NoRead == [op |-> "none", id |-> 0, isNull |-> FALSE, rows |-> <<>>]

Idle == [done |-> FALSE, thrown |-> FALSE, value |-> JSNull]

-----------------------------------------------------------------------------
(* submitCV *)

RunVars == <<pc, input, pdfText, submission, vResult, response, calls,
             aiOutcome, prompt, received>>

NormVars == <<normOutcome, normalized>>

UploadVars == <<upload, uploaded>>

FormVars == <<form>>

Fail(r, cause) ==
    /\ pc' = [pc EXCEPT ![r] = "failed"]
    /\ response' = [response EXCEPT ![r] = ErrorResponse(cause)]

\* A request whose input passed the schema enters the resolver.  Runs are
\* numbered in the order their requests arrive.
Request(r, inp) ==
    /\ pc[r] = "idle"
    /\ cvSubmissionSchema(inp)
    /\ \A q \in Runs : q < r => pc[q] # "idle"
    /\ pc' = [pc EXCEPT ![r] = "access"]
    /\ input' = [input EXCEPT ![r] = inp]
    /\ received' = [received EXCEPT ![r] = inp]
    /\ readResult' = NoRead
    /\ UNCHANGED <<files, store, now, pdfText, submission, vResult, response,
                   calls, aiOutcome, prompt, NormVars, UploadVars, FormVars>>

\* A request whose input does not pass the schema: the procedure answers
\* BAD_REQUEST and the resolver is not run.
Reject(r, raw) ==
    /\ pc[r] = "idle"
    /\ \A q \in Runs : q < r => pc[q] # "idle"
    /\ ~cvSubmissionSchema(raw)
    /\ pc' = [pc EXCEPT ![r] = "rejected"]
    /\ received' = [received EXCEPT ![r] = raw]
    /\ response' = [response EXCEPT ![r] = ErrorResponse("BAD_REQUEST")]
    /\ readResult' = NoRead
    /\ UNCHANGED <<files, store, now, input, pdfText, submission, vResult,
                   calls, aiOutcome, prompt, NormVars, UploadVars, FormVars>>

\* The procedure with an input of any kind: .input(cvSubmissionSchema), then
\* the resolver.
Receive(r, raw) ==
    \/ Request(r, raw)
    \/ Reject(r, raw)

\* await fs.access(filePath)
Access(r) ==
    /\ pc[r] = "access"
    /\ IF files[input[r].pdfPath] = "missing"
       THEN Fail(r, "PDF file not found")
       ELSE /\ pc' = [pc EXCEPT ![r] = "readFile"]
            /\ UNCHANGED response
    /\ readResult' = NoRead
    /\ UNCHANGED <<files, store, now, input, pdfText, submission, vResult,
                   calls, aiOutcome, prompt, received, NormVars, UploadVars, FormVars>>

\* A read that swallows the failure of fs.readFile and goes on with an empty
\* buffer.
ReadFileUnchecked(r) ==
    /\ pc[r] = "readFile"
    /\ pc' = [pc EXCEPT ![r] = "insert"]
    /\ pdfText' = [pdfText EXCEPT ![r] = extractPDFText(0)]
    /\ readResult' = NoRead
    /\ UNCHANGED <<files, store, now, input, submission, vResult, response,
                   calls, aiOutcome, prompt, received, NormVars, UploadVars, FormVars>>

\* await fs.readFile(filePath), then extractPDFText(pdfBuffer)
ReadFile(r) ==
    /\ pc[r] = "readFile"
    /\ IF files[input[r].pdfPath] # "ok"
       THEN /\ Fail(r, "readFile failed")
            /\ UNCHANGED pdfText
       ELSE /\ pc' = [pc EXCEPT ![r] = "insert"]
            /\ pdfText' = [pdfText EXCEPT
                              ![r] = extractPDFText(FileSize(input[r].pdfPath))]
            /\ UNCHANGED response
    /\ readResult' = NoRead
    /\ UNCHANGED <<files, store, now, input, submission, vResult, calls,
                   aiOutcome, prompt, received, NormVars, UploadVars, FormVars>>

\* An INSERT inside a transaction that is still open when the model call
\* starts: the statement returns its row and the table does not hold it yet.
InsertUncommitted(r) ==
    /\ pc[r] = "insert"
    /\ now' = now + 1
    /\ submission' = [submission EXCEPT ![r] = FreshId]
    /\ calls' = [calls EXCEPT ![r].insert = @ + 1]
    /\ pc' = [pc EXCEPT ![r] = "validate"]
    /\ readResult' = NoRead
    /\ UNCHANGED <<files, store, input, pdfText, vResult, response, aiOutcome, prompt, received,
                   NormVars, UploadVars, FormVars>>

\* await ctx.db.query(INSERT ... RETURNING *), the statement succeeding
InsertOk(r) ==
    /\ pc[r] = "insert"
    /\ store' = store \cup {NewRow(FreshId, input[r], pdfText[r], now)}
    /\ now' = now + 1
    /\ submission' = [submission EXCEPT ![r] = FreshId]
    /\ calls' = [calls EXCEPT ![r].insert = @ + 1]
    /\ pc' = [pc EXCEPT ![r] = "validate"]
    /\ readResult' = NoRead
    /\ UNCHANGED <<files, input, pdfText, vResult, response, aiOutcome, prompt, received,
                   NormVars, UploadVars, FormVars>>

\* The same statement with the database failing it
InsertFails(r) ==
    /\ pc[r] = "insert"
    /\ calls' = [calls EXCEPT ![r].insert = @ + 1]
    /\ Fail(r, "INSERT failed")
    /\ readResult' = NoRead
    /\ UNCHANGED <<files, store, now, input, pdfText, submission, vResult,
                   aiOutcome, prompt, received, NormVars, UploadVars, FormVars>>

\* A model call that is made again, once, when it fails.
ValidateRetrying(r, outcome) ==
    /\ pc[r] = "validate"
    /\ prompt' = [prompt EXCEPT ![r] = FullPrompt(input[r], pdfText[r])]
    /\ aiOutcome' = [aiOutcome EXCEPT ![r] = outcome]
    /\ calls' = [calls EXCEPT ![r].model = @ + 1]
    /\ IF outcome.kind = "error" /\ calls[r].model = 0
       THEN UNCHANGED <<pc, vResult, response>>
       ELSE /\ pc' = [pc EXCEPT ![r] = "update"]
            /\ vResult' = [vResult EXCEPT
                              ![r] = validateCVWithAI(outcome).value]
            /\ UNCHANGED response
    /\ readResult' = NoRead
    /\ UNCHANGED <<files, store, now, input, pdfText, submission, received,
                   NormVars, UploadVars, FormVars>>

\* await validateCVWithAI(input, pdfText), then the log line that reads
\* validationResult.isValid: reading a property of null raises a TypeError.
Validate(r, outcome) ==
    /\ pc[r] = "validate"
    /\ prompt' = [prompt EXCEPT ![r] = FullPrompt(input[r], pdfText[r])]
    /\ aiOutcome' = [aiOutcome EXCEPT ![r] = outcome]
    /\ calls' = [calls EXCEPT ![r].model = @ + 1]
    /\ LET res == validateCVWithAI(outcome)
       IN  IF res.thrown
           THEN /\ Fail(r, "validateCVWithAI threw")
                /\ UNCHANGED vResult
           ELSE IF res.value.t = "null"
           THEN /\ Fail(r, "TypeError reading isValid of null")
                /\ vResult' = [vResult EXCEPT ![r] = res.value]
           ELSE /\ pc' = [pc EXCEPT ![r] = "update"]
                /\ vResult' = [vResult EXCEPT ![r] = res.value]
                /\ UNCHANGED response
    /\ readResult' = NoRead
    /\ UNCHANGED <<files, store, now, input, pdfText, submission, received,
                   NormVars, UploadVars, FormVars>>

\* await ctx.db.query(UPDATE ... RETURNING *), the statement succeeding, and
\* the return of the mutation
UpdateOk(r) ==
    /\ pc[r] = "update"
    /\ store' = UpdateRows(submission[r], IsValidParam(vResult[r]),
                           JSONStringify(vResult[r]), now)
    /\ now' = now + 1
    /\ calls' = [calls EXCEPT ![r].update = @ + 1]
    /\ response' = [response EXCEPT ![r] =
                        SuccessResponse({row \in store' : row.id = submission[r]},
                                        vResult[r])]
    /\ pc' = [pc EXCEPT ![r] = "done"]
    /\ readResult' = NoRead
    /\ UNCHANGED <<files, input, pdfText, submission, vResult, aiOutcome, prompt, received,
                   NormVars, UploadVars, FormVars>>

\* The same statement with the database failing it
UpdateFails(r) ==
    /\ pc[r] = "update"
    /\ calls' = [calls EXCEPT ![r].update = @ + 1]
    /\ Fail(r, "UPDATE failed")
    /\ readResult' = NoRead
    /\ UNCHANGED <<files, store, now, input, pdfText, submission, vResult,
                   aiOutcome, prompt, received, NormVars, UploadVars, FormVars>>

-----------------------------------------------------------------------------
(* The queries *)

\* The rows of the table ordered by createdAt, earliest first.
RECURSIVE OrderByCreatedAtAsc(_)
OrderByCreatedAtAsc(rows) ==
    IF rows = {}
    THEN <<>>
    ELSE LET earliest == CHOOSE x \in rows :
                             \A y \in rows : x.createdAt <= y.createdAt
         IN  <<earliest>> \o OrderByCreatedAtAsc(rows \ {earliest})

\* The rows of the table ordered by createdAt, latest first.
RECURSIVE OrderByCreatedAtDesc(_)
OrderByCreatedAtDesc(rows) ==
    IF rows = {}
    THEN <<>>
    ELSE LET latest == CHOOSE x \in rows :
                           \A y \in rows : y.createdAt <= x.createdAt
         IN  <<latest>> \o OrderByCreatedAtDesc(rows \ {latest})

\* getSubmissions: SELECT * ... ORDER BY createdAt DESC
getSubmissions ==
    /\ readResult' = [op |-> "getSubmissions", id |-> 0, isNull |-> FALSE,
                      rows |-> OrderByCreatedAtDesc(store)]
    /\ UNCHANGED <<files, store, now, RunVars, NormVars, UploadVars, FormVars>>

\* getSubmission: SELECT * ... WHERE id = $1, then rows[0] || null
getSubmission(id) ==
    /\ readResult' = [op |-> "getSubmission", id |-> id,
                      isNull |-> RowsWithId(id) = {},
                      rows |-> OrderByCreatedAtDesc(RowsWithId(id))]
    /\ UNCHANGED <<files, store, now, RunVars, NormVars, UploadVars, FormVars>>

-----------------------------------------------------------------------------
(* POST /api/upload: the multer middleware upload.single, the handler of
   the route and the error-handling middleware *)

\* limits.fileSize, in bytes.
MaxFileSize == 10 * 1024 * 1024

\* The status of the error responses.
BadRequest == 400

\* The status of res.json without a call of res.status.
HttpOk == 200

MimeTypes ==
    {"application/pdf", "image/png", "text/plain", "application/octet-stream"}

\* The names of the form field a client may send its file in.
FieldNames == {"cv", "file"}

\* Sizes of the file a client sends, in bytes.
UploadSizes ==
    {0, 1, MaxFileSize - 1, MaxFileSize, MaxFileSize + 1, 2 * MaxFileSize}

\* A request without a file part.
NoFile == [present |-> FALSE, fieldname |-> "", mimetype |-> "", size |-> 0]

UploadRequests ==
    {NoFile} \cup
    {[present |-> TRUE, fieldname |-> f, mimetype |-> m, size |-> n] :
        f \in FieldNames, m \in MimeTypes, n \in UploadSizes}

\* req.file before the storage has set it.
NoReqFile == [present |-> FALSE, filename |-> <<>>, size |-> 0]

NoUploadError == [multer |-> FALSE, code |-> "", message |-> <<>>]

\* The error the fileFilter gives its callback.
OnlyPdfError ==
    [multer |-> FALSE, code |-> "",
     message |-> <<"Only", "PDF", "files", "are", "allowed">>]

\* The MulterError of a given code.
MulterError(code) ==
    [multer |-> TRUE, code |-> code,
     message |-> IF code = "LIMIT_FILE_SIZE"
                 THEN <<"File", "too", "large">>
                 ELSE <<"Unexpected", "field">>]

NoUploadResponse ==
    [status |-> 0, error |-> <<>>, hasPath |-> FALSE, filename |-> <<>>,
     path |-> <<>>, url |-> <<>>, size |-> 0]

UploadErrorResponse(message) ==
    [status |-> BadRequest, error |-> message, hasPath |-> FALSE,
     filename |-> <<>>, path |-> <<>>, url |-> <<>>, size |-> 0]

\* The response of the handler for a stored file: its name, its absolute
\* path in the uploads directory, its URL and its size.
UploadSuccessResponse(file) ==
    [status |-> HttpOk, error |-> <<>>, hasPath |-> TRUE,
     filename |-> file.filename,
     path |-> <<"cwd", "/uploads/">> \o file.filename,
     url |-> <<"/uploads/">> \o file.filename,
     size |-> file.size]

NoUpload ==
    [stage |-> "idle", req |-> NoFile, err |-> NoUploadError,
     file |-> NoReqFile, res |-> NoUploadResponse]

\* The filename function of the disk storage: the field name, a suffix no
\* stored file has, and the extension.
UploadFilename(fieldname) ==
    <<fieldname, "-", ToString(Cardinality(uploaded) + 1), ".pdf">>

UploadRest == <<files, store, now, RunVars, readResult, NormVars, FormVars>>

\* A request arrives at the route.
UploadRequest(req) ==
    /\ upload.stage = "idle"
    /\ upload' = [upload EXCEPT !.stage = "single", !.req = req]
    /\ UNCHANGED <<uploaded, UploadRest>>

\* upload.single: a request without a file part goes on to the handler; a
\* file in a field other than cv is an error of the middleware.
Single ==
    /\ upload.stage = "single"
    /\ upload' =
          IF ~upload.req.present
          THEN [upload EXCEPT !.stage = "handler"]
          ELSE IF upload.req.fieldname # "cv"
          THEN [upload EXCEPT !.stage = "error",
                              !.err = MulterError("LIMIT_UNEXPECTED_FILE")]
          ELSE [upload EXCEPT !.stage = "fileFilter"]
    /\ UNCHANGED <<uploaded, UploadRest>>

\* A filter that accepts a file of any type.
FileFilterAcceptingAll ==
    /\ upload.stage = "fileFilter"
    /\ upload' = [upload EXCEPT !.stage = "storage"]
    /\ UNCHANGED <<uploaded, UploadRest>>

\* fileFilter: the declared content type of the part decides.
FileFilter ==
    /\ upload.stage = "fileFilter"
    /\ upload' =
          IF upload.req.mimetype = "application/pdf"
          THEN [upload EXCEPT !.stage = "storage"]
          ELSE [upload EXCEPT !.stage = "error", !.err = OnlyPdfError]
    /\ UNCHANGED <<uploaded, UploadRest>>

\* The disk storage writes the file and sets req.file.  A file of exactly
\* limits.fileSize bytes is within the limit for some versions of the
\* middleware and over it for others.
StoreFileOk ==
    /\ upload.stage = "storage"
    /\ upload.req.size <= MaxFileSize
    /\ LET name == UploadFilename(upload.req.fieldname)
       IN  /\ uploaded' = uploaded \cup {name}
           /\ upload' = [upload EXCEPT
                            !.stage = "handler",
                            !.file = [present |-> TRUE, filename |-> name,
                                      size |-> upload.req.size]]
    /\ UNCHANGED UploadRest

\* The stream reaches the limit: the storage removes what it wrote and the
\* middleware ends with LIMIT_FILE_SIZE.
StoreFileTooLarge ==
    /\ upload.stage = "storage"
    /\ upload.req.size >= MaxFileSize
    /\ upload' = [upload EXCEPT !.stage = "error",
                                !.err = MulterError("LIMIT_FILE_SIZE")]
    /\ UNCHANGED <<uploaded, UploadRest>>

\* The handler of the route.
UploadHandler ==
    /\ upload.stage = "handler"
    /\ upload' =
          [upload EXCEPT
              !.stage = "responded",
              !.res = IF ~upload.file.present
                      THEN UploadErrorResponse(<<"No", "file", "uploaded">>)
                      ELSE UploadSuccessResponse(upload.file)]
    /\ UNCHANGED <<uploaded, UploadRest>>

\* The error-handling middleware.
UploadErrorHandler ==
    /\ upload.stage = "error"
    /\ upload' =
          [upload EXCEPT
              !.stage = "responded",
              !.res = IF upload.err.multer /\ upload.err.code = "LIMIT_FILE_SIZE"
                      THEN UploadErrorResponse(
                               <<"File", "too", "large.", "Maximum", "size",
                                 "is", "10MB.">>)
                      ELSE UploadErrorResponse(upload.err.message)]
    /\ UNCHANGED <<uploaded, UploadRest>>

-----------------------------------------------------------------------------
(* The CVForm component: its state, onDrop and onSubmit.  The upload
   endpoint and the mutation are what they answer. *)

\* Largest number of times the form is submitted.
MaxSubmits == 2

\* The files the dropzone accepts.
FormFiles == {"cv-a.pdf", "cv-b.pdf"}

\* useState<File | null>(null)
NoSelection == "none"

\* The values of the fields: skills is one text, the skills with commas and
\* blanks between them.
FormValues ==
    {[fullName |-> "Jane Doe", email |-> "jane@x.com",
      phone |-> "+15551234567", skills |-> <<"Go", ",", " ", "SQL">>,
      experience |-> "5 years backend."],
     [fullName |-> "John Roe", email |-> "john@y.org",
      phone |-> "+15557654321", skills |-> <<"TypeScript", ",", " ">>,
      experience |-> "2 years frontend."]}

\* The fields after reset().
BlankFields ==
    [fullName |-> "", email |-> "", phone |-> "", skills |-> <<>>,
     experience |-> ""]

IsSkillLexeme(x) == x \notin {",", " "}

\* data.skills.split(','), each piece trimmed, the empty pieces dropped.
SplitSkills(text) == SelectSeq(text, IsSkillLexeme)

\* What fetch and uploadResponse.json() can give: fetch rejects, a response
\* that is not ok, a response whose body is no JSON, or the body of a stored
\* file with its path.
UploadReplies ==
    {[kind |-> k, path |-> ""] : k \in {"rejects", "notOk", "badBody"}}
        \cup {[kind |-> "ok", path |-> path] : path \in Paths}

PendingReply == [kind |-> "pending", path |-> ""]

\* The validation results a successful mutation may carry.
FormResults ==
    {ValueOf("vMatch"), ValueOf("vMismatch"), ParseFallback, OtherFallback,
     JSObject(NoProps)}

\* What submitCV.mutateAsync can give: it rejects, or the result of the
\* mutation.
MutationResults ==
    {[kind |-> "error", validationResult |-> JSNull]}
        \cup {[kind |-> "success", validationResult |-> v] : v \in FormResults}

\* JavaScript truthiness of result.validationResult.isValid.
IsValidTruthy(v) == "isValid" \in DOMAIN v.o /\ v.o.isValid = "true"

NoMutationInput ==
    [fullName |-> "", email |-> "", phone |-> "", skills |-> <<>>,
     experience |-> "", pdfPath |-> ""]

\* A request the form sent to POST /api/upload, with the reply it got.
UploadSent(file) ==
    [kind |-> "upload", file |-> file, reply |-> PendingReply,
     input |-> NoMutationInput]

\* A submitCV mutation the form sent.
MutationSent(data, path) ==
    [kind |-> "submitCV", file |-> "", reply |-> PendingReply,
     input |-> [fullName |-> data.fullName, email |-> data.email,
                phone |-> data.phone, skills |-> SplitSkills(data.skills),
                experience |-> data.experience, pdfPath |-> path]]

NoForm ==
    [pc |-> "idle", file |-> NoSelection, fields |-> BlankFields,
     isUploading |-> FALSE, validationResult |-> JSNull, alert |-> "",
     sent |-> <<>>, submits |-> 0]

FormRest ==
    <<files, store, now, RunVars, readResult, NormVars, UploadVars>>

\* onDrop with one accepted file
OnDrop(f) ==
    /\ form.file # f
    /\ form' = [form EXCEPT !.file = f]
    /\ UNCHANGED FormRest

\* The user fills the empty fields in.
FillIn(data) ==
    /\ form.pc = "idle"
    /\ form.fields = BlankFields
    /\ form' = [form EXCEPT !.fields = data]
    /\ UNCHANGED FormRest

\* onSubmit up to its first await.  handleSubmit calls it with fields that
\* passed the rules of the form, and the submit button is disabled while
\* isUploading or the mutation is loading.
OnSubmit ==
    /\ form.pc = "idle"
    /\ ~form.isUploading
    /\ form.fields # BlankFields
    /\ form.submits < MaxSubmits
    /\ form' =
          IF form.file = NoSelection
          THEN [form EXCEPT !.alert = "Please upload a CV PDF file",
                            !.submits = @ + 1]
          ELSE [form EXCEPT !.isUploading = TRUE,
                            !.validationResult = JSNull,
                            !.pc = "upload",
                            !.sent = Append(@, UploadSent(form.file)),
                            !.submits = @ + 1]
    /\ UNCHANGED FormRest

\* An onSubmit that goes on to the mutation whatever the upload answered.
UploadRespondsUnchecked(reply) ==
    /\ form.pc = "upload"
    /\ form' =
          [form EXCEPT
              !.pc = "mutate",
              !.sent = Append([@ EXCEPT ![Len(@)].reply = reply],
                              MutationSent(form.fields, reply.path))]
    /\ UNCHANGED FormRest

\* onSubmit from the answer of the upload to its next await, or to its end
\* through the catch and the finally.  The fields are those onSubmit was
\* called with: they change only while no onSubmit runs.
UploadResponds(reply) ==
    /\ form.pc = "upload"
    /\ form' =
          IF reply.kind = "ok"
          THEN [form EXCEPT
                   !.pc = "mutate",
                   !.sent = Append([@ EXCEPT ![Len(@)].reply = reply],
                                   MutationSent(form.fields, reply.path))]
          ELSE [form EXCEPT
                   !.pc = "idle",
                   !.sent = [@ EXCEPT ![Len(@)].reply = reply],
                   !.alert = "Failed to submit CV. Please try again.",
                   !.isUploading = FALSE]
    /\ UNCHANGED FormRest

\* An onSubmit without its finally: isUploading is set back on success
\* only.
MutationRespondsWithoutFinally(res) ==
    /\ form.pc = "mutate"
    /\ form' =
          IF res.kind = "success"
          THEN [form EXCEPT
                   !.pc = "idle",
                   !.validationResult = res.validationResult,
                   !.isUploading = FALSE]
          ELSE [form EXCEPT
                   !.pc = "idle",
                   !.alert = "Failed to submit CV. Please try again."]
    /\ UNCHANGED FormRest

\* onSubmit from the answer of the mutation to its end.
MutationResponds(res) ==
    /\ form.pc = "mutate"
    /\ form' =
          IF res.kind = "success"
          THEN [form EXCEPT
                   !.pc = "idle",
                   !.validationResult = res.validationResult,
                   !.fields = IF IsValidTruthy(res.validationResult)
                              THEN BlankFields ELSE @,
                   !.file = IF IsValidTruthy(res.validationResult)
                            THEN NoSelection ELSE @,
                   !.isUploading = FALSE]
          ELSE [form EXCEPT
                   !.pc = "idle",
                   !.alert = "Failed to submit CV. Please try again.",
                   !.isUploading = FALSE]
    /\ UNCHANGED FormRest

-----------------------------------------------------------------------------
(* The system: MaxRuns submitCV requests and the listing query, interleaved
   at the awaits of the resolver *)

\* The model calls of concurrent requests end in one of these ways: a reply
\* that is a result, a reply that is null, or a rate-limited call.  A reply
\* that is no JSON, and every other outcome, goes through the one request of
\* SpecSingle.
ConcurrentOutcomes ==
    {Reply(<<"vMatch">>), Reply(<<"vNull">>),
     Failure([syntax |-> FALSE, status |-> TooManyRequests,
              hasMsg |-> TRUE, msg |-> {"quota"}])}

Init ==
    /\ files \in [Paths -> FileStates]
    /\ store = {}
    /\ now = 1
    /\ pc = [r \in Runs |-> "idle"]
    /\ input = [r \in Runs |-> NoInput]
    /\ pdfText = [r \in Runs |-> <<>>]
    /\ submission = [r \in Runs |-> 0]
    /\ vResult = [r \in Runs |-> JSNull]
    /\ response = [r \in Runs |-> NoResponse]
    /\ calls = [r \in Runs |-> NoCalls]
    /\ readResult = NoRead
    /\ aiOutcome = [r \in Runs |-> Reply(<<>>)]
    /\ normOutcome = Reply(<<>>)
    /\ normalized = Idle
    /\ upload = NoUpload
    /\ uploaded = {}
    /\ prompt = [r \in Runs |-> <<>>]
    /\ received = [r \in Runs |-> NoInput]
    /\ form = NoForm

\* The steps of run r other than the model call.
RunStep(r) ==
    \/ \E inp \in Inputs : Request(r, inp)
    \/ Access(r)
    \/ ReadFile(r)
    \/ InsertOk(r)
    \/ InsertFails(r)
    \/ UpdateOk(r)
    \/ UpdateFails(r)

Query ==
    \/ getSubmissions
    \/ \E id \in 1..MaxRuns : getSubmission(id)

Next ==
    \/ \E r \in Runs : RunStep(r)
    \/ \E r \in Runs, outcome \in ConcurrentOutcomes : Validate(r, outcome)
    \/ getSubmissions

Spec == Init /\ [][Next]_vars

-----------------------------------------------------------------------------
(* One submitCV request, its model call ending in any way, and both queries
   running beside it *)

NextSingle ==
    \/ RunStep(1)
    \/ \E outcome \in Outcomes(MaxRunReplyLen) : Validate(1, outcome)
    \/ \E raw \in MalformedInputs : Receive(1, raw)
    \/ Query

SpecSingle == Init /\ [][NextSingle]_vars

-----------------------------------------------------------------------------
(* The normalizer alone: one model call with any outcome, normalized *)

InitNorm ==
    /\ files = [p \in Paths |-> "ok"]
    /\ store = {}
    /\ now = 1
    /\ pc = [r \in Runs |-> "idle"]
    /\ input = [r \in Runs |-> NoInput]
    /\ pdfText = [r \in Runs |-> <<>>]
    /\ submission = [r \in Runs |-> 0]
    /\ vResult = [r \in Runs |-> JSNull]
    /\ response = [r \in Runs |-> NoResponse]
    /\ calls = [r \in Runs |-> NoCalls]
    /\ readResult = NoRead
    /\ aiOutcome = [r \in Runs |-> Reply(<<>>)]
    /\ normOutcome \in Outcomes(MaxReplyLen) \cup FencedReplies
    /\ normalized = Idle
    /\ upload = NoUpload
    /\ uploaded = {}
    /\ prompt = [r \in Runs |-> <<>>]
    /\ received = [r \in Runs |-> NoInput]
    /\ form = NoForm

Normalize ==
    /\ ~normalized.done
    /\ normalized' = [done |-> TRUE] @@ validateCVWithAI(normOutcome)
    /\ UNCHANGED <<files, store, now, RunVars, readResult, normOutcome,
                   UploadVars, FormVars>>

NextNorm == Normalize

SpecNorm == InitNorm /\ [][NextNorm]_vars

-----------------------------------------------------------------------------
(* One request to POST /api/upload *)

NextUpload ==
    \/ \E req \in UploadRequests : UploadRequest(req)
    \/ Single
    \/ FileFilter
    \/ StoreFileOk
    \/ StoreFileTooLarge
    \/ UploadHandler
    \/ UploadErrorHandler

SpecUpload == Init /\ [][NextUpload]_vars

-----------------------------------------------------------------------------
(* The form, submitted up to MaxSubmits times *)

InitForm == Init /\ files = [path \in Paths |-> "ok"]

NextForm ==
    \/ \E f \in FormFiles : OnDrop(f)
    \/ \E data \in FormValues : FillIn(data)
    \/ OnSubmit
    \/ \E reply \in UploadReplies : UploadResponds(reply)
    \/ \E res \in MutationResults : MutationResponds(res)

SpecForm == InitForm /\ [][NextForm]_vars

-----------------------------------------------------------------------------
(* Properties *)

\* The failure kinds a thrown value signals.  A SyntaxError is a malformed
\* reply, none of the provider failures.
ProviderKinds(e) ==
    LET rateLimited == e.status = TooManyRequests \/ MsgIncludes(e, "quota")
        unavailable == MsgIncludes(e, "not found")
                           \/ MsgIncludes(e, "not supported")
    IN  IF e.syntax
        THEN {}
        ELSE {k \in {"RateLimited", "ModelUnavailable", "ProviderError",
                     "TransportError"} :
                \/ k = "RateLimited" /\ rateLimited
                \/ k = "ModelUnavailable" /\ unavailable
                \/ /\ k = "ProviderError"
                   /\ e.status >= MinErrorStatus
                   /\ ~rateLimited /\ ~unavailable
                \/ /\ k = "TransportError"
                   /\ e.status = NoStatus
                   /\ ~rateLimited /\ ~unavailable}

HasText(props, key) == key \in DOMAIN props /\ props[key] # <<>>

\* The normalizer was run on a provider failure of some kind.
NormalizedFailure ==
    /\ normalized.done
    /\ normOutcome.kind = "error"
    /\ ProviderKinds(normOutcome.err) # {}

\* The normalizer was run on a reply that is no JSON once the fences are off.
NormalizedMalformedReply ==
    /\ normalized.done
    /\ normOutcome.kind = "reply"
    /\ ~JSONParse(CleanText(normOutcome.text)).ok

C2_AIFailureNeverSurfaces ==
    \A r \in Runs :
        (pc[r] = "failed" /\ files[input[r].pdfPath] = "ok")
        => submission[r] = 0 \/ calls[r].update = 1

\* C3: a reply that is no JSON gives the fallback: isValid true, the five
\* matches null, an explanation for each of the five fields, a summary and an
\* error.
C3_MalformedReplyFallback ==
    NormalizedMalformedReply =>
        LET v == normalized.value
        IN  /\ ~normalized.thrown
            /\ v.t = "object"
            /\ "isValid" \in DOMAIN v.o /\ v.o.isValid = "true"
            /\ "matches" \in DOMAIN v.o /\ v.o.matches = AllFields("null")
            /\ "details" \in DOMAIN v.o /\ DOMAIN v.o.details = FieldKeys
            /\ \A k \in FieldKeys : v.o.details[k] # <<>>
            /\ HasText(v.o, "overallSummary")
            /\ HasText(v.o, "error")

\* A fenced reply holding prose was normalized.
C3_Witness ==
    /\ NormalizedMalformedReply
    /\ normOutcome.text = <<Fence, "json", "prose", Fence>>
    /\ normalized.value.o.matches = AllFields("null")

\* C4: every provider failure gives isValid true and an error; two failures
\* that each signal one kind, and not the same kind, give different errors,
\* and neither gives the error of a malformed reply.
C4_DistinctErrorPerKind ==
    NormalizedFailure =>
        LET v == normalized.value
            e == normOutcome.err
        IN  /\ ~normalized.thrown
            /\ v.t = "object"
            /\ "isValid" \in DOMAIN v.o /\ v.o.isValid = "true"
            /\ HasText(v.o, "error")
            /\ Cardinality(ProviderKinds(e)) = 1 =>
                /\ v.o.error
                     # validateCVWithAI(Reply(<<"prose">>)).value.o.error
                /\ \A e2 \in ThrownErrors :
                     /\ Cardinality(ProviderKinds(e2)) = 1
                     /\ ProviderKinds(e2) # ProviderKinds(e)
                     => validateCVWithAI(Failure(e2)).value.o.error # v.o.error

\* A failure that signals rate limiting and nothing else was normalized.
C4_Witness ==
    /\ NormalizedFailure
    /\ ProviderKinds(normOutcome.err) = {"RateLimited"}
    /\ normOutcome.err.status = TooManyRequests
    /\ HasText(normalized.value.o, "error")

\* C5: every provider failure gives the shape of the malformed-reply
\* fallback: the five matches null and an explanation for each of the five
\* fields.
C5_FailureHasFallbackShape ==
    NormalizedFailure =>
        LET v == normalized.value
        IN  /\ "matches" \in DOMAIN v.o /\ v.o.matches = AllFields("null")
            /\ "details" \in DOMAIN v.o /\ DOMAIN v.o.details = FieldKeys

\* C6: every returned value has matches and details, when present, over
\* exactly the five fields, and has isValid when it has no error.
C6_ResultInvariant ==
    (normalized.done /\ ~normalized.thrown) =>
        LET v == normalized.value
        IN  /\ "matches" \in DOMAIN v.o => DOMAIN v.o.matches = FieldKeys
            /\ "details" \in DOMAIN v.o => DOMAIN v.o.details = FieldKeys
            /\ "error" \notin DOMAIN v.o => "isValid" \in DOMAIN v.o

\* The row run r inserted.
RowOf(r) == CHOOSE row \in store : row.id = submission[r]

\* The model call of run r was made and failed with HTTP status 429.
RateLimitedRun(r) ==
    /\ calls[r].model = 1
    /\ aiOutcome[r].kind = "error"
    /\ aiOutcome[r].err.status = TooManyRequests

\* C7 as stated: a call failing with status 429 gives isValid true, the error
\* rate_limited, the five matches null and a summary naming the quota, and
\* the submission is stored with validated true.
C7_AsStated ==
    \A r \in Runs :
        RateLimitedRun(r) =>
            LET v == vResult[r]
            IN  /\ "isValid" \in DOMAIN v.o /\ v.o.isValid = "true"
                /\ "error" \in DOMAIN v.o /\ v.o.error = <<"rate_limited">>
                /\ "matches" \in DOMAIN v.o /\ v.o.matches = AllFields("null")
                /\ "overallSummary" \in DOMAIN v.o
                /\ Contains(v.o.overallSummary, "quota")
                /\ RowsWithId(submission[r]) # {}
                /\ pc[r] = "done" => RowOf(r).validated = "true"

\* C7, amended: a call failing with status 429 gives isValid true, an error
\* and the five matches null; the submission is in the store, and once the
\* UPDATE has run it is stored with validated true and returned with success.
\* Unless the message of the failure also says not found or not supported,
\* the error is the quota-exceeded one and the summary names the quota.
C7_RateLimitedAccepted ==
    \A r \in Runs :
        RateLimitedRun(r) =>
            LET v == vResult[r]
                e == aiOutcome[r].err
            IN  /\ pc[r] \in {"update", "done", "failed"}
                /\ v.t = "object"
                /\ "isValid" \in DOMAIN v.o /\ v.o.isValid = "true"
                /\ HasText(v.o, "error")
                /\ "matches" \in DOMAIN v.o /\ v.o.matches = AllFields("null")
                /\ RowsWithId(submission[r]) # {}
                /\ pc[r] = "failed" => response[r].cause = "UPDATE failed"
                /\ pc[r] = "done" =>
                      /\ RowOf(r).validated = "true"
                      /\ response[r].kind = "success"
                      /\ response[r].validationResult = v
                /\ (~MsgIncludes(e, "not found")
                        /\ ~MsgIncludes(e, "not supported")) =>
                      /\ v.o.error = <<"Google", "AI", "quota", "exceeded",
                                       "-", "validation", "skipped">>
                      /\ "overallSummary" \in DOMAIN v.o
                      /\ Contains(v.o.overallSummary, "quota")

\* A run whose model call failed with status 429 and a message about too
\* many requests has finished, and its row is stored with validated true.
C7_Witness ==
    \E r \in Runs :
        /\ RateLimitedRun(r)
        /\ aiOutcome[r].err.msg = {}
        /\ aiOutcome[r].err.hasMsg
        /\ pc[r] = "done"
        /\ RowOf(r).validated = "true"
        /\ RowOf(r).validationResult = JSONStringify(vResult[r])

\* C8: a run whose file is missing or unreadable fails before it issues an
\* INSERT, an UPDATE or a model call, and leaves no row for its file.
C8_UnreadableFileAborts ==
    \A r \in Runs :
        (/\ pc[r] \notin {"idle", "access", "readFile"}
         /\ files[input[r].pdfPath] # "ok")
        => /\ pc[r] = "failed"
           /\ response[r].kind = "error"
           /\ calls[r] = NoCalls
           /\ submission[r] = 0
           /\ \A row \in store : row.pdfUrl # input[r].pdfPath

\* A run failed on a file that fs.access found and fs.readFile could not
\* read, while another run had its row in the store.
C8_Witness ==
    \E r \in Runs :
        /\ pc[r] = "failed"
        /\ files[input[r].pdfPath] = "unreadable"
        /\ response[r].cause = "readFile failed"
        /\ calls[r] = NoCalls
        /\ store # {}

\* C9: a run that gave its caller an error left no row in the store.
C9_NoRecordWhenFailed ==
    \A r \in Runs :
        response[r].kind = "error" => RowsWithId(submission[r]) = {}

\* The rows of the last read that belong to a run between its INSERT and its
\* UPDATE.
InFlightRead ==
    {i \in 1..Len(readResult.rows) :
        \E r \in Runs : /\ pc[r] \in {"validate", "update"}
                        /\ submission[r] = readResult.rows[i].id}

\* C10 as stated: a read between the INSERT and the UPDATE of a submission
\* sees validated and validationResult null.
C10_AsStated ==
    \A i \in InFlightRead :
        /\ readResult.rows[i].validated = "null"
        /\ readResult.rows[i].validationResult = SQLNull

\* C10, amended: a read between the INSERT and the UPDATE of a submission
\* sees validated false, the default of the column, and validationResult
\* null.
C10_InFlightOutcome ==
    \A i \in InFlightRead :
        /\ readResult.rows[i].validated = "false"
        /\ readResult.rows[i].validationResult = SQLNull

\* getSubmission returned the row of a run whose model call has ended and
\* whose UPDATE has not run yet.
C10_Witness ==
    /\ readResult.op = "getSubmission"
    /\ ~readResult.isNull
    /\ InFlightRead # {}
    /\ \E r \in Runs : pc[r] = "update" /\ readResult.id = submission[r]

\* The row holds the declared fields of run r and the text extracted from
\* its file.
HoldsDeclared(row, r) ==
    /\ row.fullName = input[r].fullName
    /\ row.email = input[r].email
    /\ row.phone = input[r].phone
    /\ row.skills = input[r].skills
    /\ row.experience = input[r].experience
    /\ row.pdfUrl = input[r].pdfPath
    /\ row.pdfContent = pdfText[r]
    /\ row.pdfContent = extractPDFText(FileSize(input[r].pdfPath))

\* C11: from the moment a run waits for the model, and whatever the model
\* call then does, its INSERT has been issued once and the store holds a row
\* with the id the INSERT returned, the declared fields of the request and
\* the extracted text.
C11_RecordBeforeModelCall ==
    \A r \in Runs :
        (pc[r] = "validate" \/ calls[r].model > 0) =>
            /\ calls[r].insert = 1
            /\ \E row \in store : row.id = submission[r] /\ HoldsDeclared(row, r)

\* The model call of a run failed, and the row of the run is in the store
\* while another run still waits for its own model call.
C11_Witness ==
    \E r, q \in Runs :
        /\ calls[r].model = 1
        /\ aiOutcome[r].kind = "error"
        /\ \E row \in store : row.id = submission[r] /\ HoldsDeclared(row, r)
        /\ pc[q] = "validate"
        /\ RowsWithId(submission[q]) # {}

\* The columns the INSERT writes and the UPDATE does not name.
DeclaredColumns ==
    {"id", "fullName", "email", "phone", "skills", "experience", "pdfUrl",
     "pdfContent", "createdAt"}

SameDeclared(a, b) == \A c \in DeclaredColumns : a[c] = b[c]

\* C12: every step keeps every row of the store with its id, its declared
\* fields, its text and its createdAt; a step changes a row at all only when
\* it is the UPDATE of the run that inserted the row, and then only
\* validated, validationResult and updatedAt.
C12_UpdateFrame ==
    [][\A row \in store :
          \E after \in store' :
              /\ SameDeclared(row, after)
              /\ after # row =>
                    \E r \in Runs : /\ pc[r] = "update"
                                    /\ pc'[r] = "done"
                                    /\ submission[r] = row.id]_vars

\* The UPDATE of one run has attached its outcome and bumped updatedAt of its
\* row, the declared fields being those of its request, while the row of
\* another run, about to be updated, is as its INSERT wrote it.
C12_Witness ==
    \E r, q \in Runs :
        /\ pc[r] = "done"
        /\ HoldsDeclared(RowOf(r), r)
        /\ RowOf(r).updatedAt > RowOf(r).createdAt
        /\ RowOf(r).validationResult = JSONStringify(vResult[r])
        /\ pc[q] = "update"
        /\ RowOf(q) = NewRow(submission[q], input[q], pdfText[q],
                             RowOf(q).createdAt)

\* C13: the runs that have inserted hold different ids and each id names one
\* row; every row has the declared fields of the run that inserted it, and
\* an outcome, once attached, is the one that run computed from its own model
\* call, attached by its own UPDATE.
C13_OwnRecordOwnOutcome ==
    /\ \A r, q \in Runs :
          (r # q /\ submission[r] # 0 /\ submission[q] # 0)
          => submission[r] # submission[q]
    /\ \A r \in Runs :
          submission[r] # 0 => Cardinality(RowsWithId(submission[r])) = 1
    /\ \A row \in store :
          \E r \in Runs :
              /\ submission[r] = row.id
              /\ HoldsDeclared(row, r)
              /\ row.validationResult # SQLNull =>
                    /\ calls[r].update = 1
                    /\ vResult[r] = validateCVWithAI(aiOutcome[r]).value
                    /\ row.validationResult = JSONStringify(vResult[r])
                    /\ row.validated = IsValidParam(vResult[r])

\* Two runs with different requests and different model replies have both
\* finished, the run that inserted first having updated last, and each row
\* holds the fields and the outcome of its own run.
C13_Witness ==
    \E r, q \in Runs :
        /\ pc[r] = "done" /\ pc[q] = "done"
        /\ input[r] # input[q]
        /\ vResult[r] # vResult[q]
        /\ RowOf(r).createdAt < RowOf(q).createdAt
        /\ RowOf(r).updatedAt > RowOf(q).updatedAt
        /\ HoldsDeclared(RowOf(r), r) /\ HoldsDeclared(RowOf(q), q)
        /\ RowOf(r).validationResult = JSONStringify(vResult[r])
        /\ RowOf(q).validationResult = JSONStringify(vResult[q])

\* The model call of run r was made and gave a reply that is JSON once the
\* fences are off.
ParsedReply(r) ==
    /\ calls[r].model = 1
    /\ aiOutcome[r].kind = "reply"
    /\ JSONParse(CleanText(aiOutcome[r].text)).ok

\* C14: when the reply parses, the result of validateCVWithAI is the parsed
\* value itself; once submitCV has returned, the row has validated equal to
\* isValid of that value (NULL when the value has no isValid) and
\* validationResult equal to the value, and the response carries the updated
\* row and the same value.
C14_ParsedReplyVerbatim ==
    \A r \in Runs :
        ParsedReply(r) =>
            LET v == JSONParse(CleanText(aiOutcome[r].text)).value
            IN  /\ vResult[r] = v
                /\ pc[r] = "done" =>
                      /\ RowOf(r).validated =
                            (IF "isValid" \in DOMAIN v.o
                             THEN v.o.isValid ELSE "null")
                      /\ RowOf(r).validationResult = [isNull |-> FALSE, doc |-> v]
                      /\ response[r].kind = "success"
                      /\ response[r].submission = {RowOf(r)}
                      /\ response[r].validationResult = v

\* A run whose model replied isValid true with the five matches true has
\* returned: the row is stored with validated true and the reply as its
\* validationResult, and the response echoes the reply.
C14_Witness ==
    \E r \in Runs :
        /\ ParsedReply(r)
        /\ pc[r] = "done"
        /\ vResult[r].o.isValid = "true"
        /\ vResult[r].o.matches = AllFields("true")
        /\ RowOf(r).validated = "true"
        /\ RowOf(r).validationResult.doc = ValueOf("vMatch")
        /\ response[r].validationResult = ValueOf("vMatch")

\* C15: once the UPDATE of a run has attached the outcome, the row has
\* validated true or false, not NULL, and a validationResult that is not
\* NULL.
C15_AttachedOutcomeNotNull ==
    \A r \in Runs :
        pc[r] = "done" =>
            /\ RowOf(r).validated \in {"true", "false"}
            /\ ~RowOf(r).validationResult.isNull

\* The text, white space around it aside, opens with a fence and the tag and
\* closes with a fence.
IsFenced(text, tag) ==
    LET t == Trim(text)
    IN  /\ Len(t) >= Len(tag) + 2
        /\ StartsWith(t, <<Fence>> \o tag)
        /\ t[Len(t)] = Fence

\* What stands between the opening fence with its tag and the closing fence.
FencedBody(text, tag) ==
    LET t == Trim(text)
    IN  SubSeq(t, Len(tag) + 2, Len(t) - 1)

\* The normalizer was run on a reply that is a JSON document in a fence with
\* the tag.
NormalizedFencedDocument(tag) ==
    /\ normalized.done
    /\ normOutcome.kind = "reply"
    /\ IsFenced(normOutcome.text, tag)
    /\ JSONParse(FencedBody(normOutcome.text, tag)).ok

\* validateCVWithAI gave for the reply what it gives for the text alone.
NormalizedAs(text) ==
    normalized = [done |-> TRUE] @@ validateCVWithAI(Reply(text))

\* C16: a JSON document in a fence tagged json is normalized to what the
\* document without the fence is normalized to: the parsed document.
C16_JsonFenceTransparent ==
    NormalizedFencedDocument(<<"json">>) =>
        LET doc == FencedBody(normOutcome.text, <<"json">>)
        IN  /\ NormalizedAs(doc)
            /\ ~normalized.thrown
            /\ normalized.value = JSONParse(doc).value

\* A document on its own line between a fence tagged json and the closing
\* fence was normalized to the document.
C16_Witness ==
    /\ NormalizedFencedDocument(<<"json">>)
    /\ normOutcome.text = <<Fence, "json", WS, "vMismatch", WS, Fence>>
    /\ normalized.value = ValueOf("vMismatch")

\* C17: a JSON document in a fence, whatever the tag or without one, is
\* normalized to what the document without fence and tag is normalized to;
\* a reply that does not open with a fence is parsed as it is.
C17_AnyFenceStripped ==
    (normalized.done /\ normOutcome.kind = "reply") =>
        /\ \A tag \in Tags :
              NormalizedFencedDocument(tag)
              => NormalizedAs(FencedBody(normOutcome.text, tag))
        /\ ~StartsWith(Trim(normOutcome.text), <<Fence>>) =>
              LET parsed == JSONParse(normOutcome.text)
              IN  normalized.value =
                      IF parsed.ok THEN parsed.value ELSE ParseFallback

C19_UploadAcceptsOnlyPdfWithinLimit ==
    upload.stage = "responded" =>
        LET req == upload.req
            res == upload.res
        IN  /\ res.hasPath =>
                  /\ req.present
                  /\ req.mimetype = "application/pdf"
                  /\ req.size <= MaxFileSize
                  /\ res.status = HttpOk
                  /\ res.path # <<>> /\ res.url # <<>>
                  /\ res.filename \in uploaded
            /\ (\/ ~req.present
                \/ req.mimetype # "application/pdf"
                \/ req.size > MaxFileSize) =>
                  /\ res.status = BadRequest
                  /\ res.error # <<>>
                  /\ ~res.hasPath
            /\ res.status = BadRequest \/ res.hasPath

\* A PDF one byte under the limit, sent in the field cv, was stored and the
\* response carries its path and its URL.
C19_Witness ==
    /\ upload.stage = "responded"
    /\ upload.req.mimetype = "application/pdf"
    /\ upload.req.size = MaxFileSize - 1
    /\ upload.res.status = HttpOk
    /\ upload.res.hasPath
    /\ upload.res.filename \in uploaded

\* C20: what getSubmission(id) returns is null exactly when the store has no
\* row with that id, and is otherwise the row of the store with that id;
\* the step of getSubmission leaves the store as it was.
C20_GetSubmissionReadsById ==
    /\ [](readResult.op = "getSubmission" =>
            LET found == {row \in store : row.id = readResult.id}
            IN  /\ readResult.isNull <=> found = {}
                /\ found = {} => readResult.rows = <<>>
                /\ found # {} => /\ Len(readResult.rows) = 1
                                 /\ readResult.rows[1] \in found)
    /\ [][readResult'.op = "getSubmission" => store' = store]_vars

\* getSubmission returned the row of a finished run, outcome attached, while
\* the store holds that row and nothing else.
C20_Witness ==
    /\ readResult.op = "getSubmission"
    /\ ~readResult.isNull
    /\ \E r \in Runs : /\ pc[r] = "done"
                       /\ readResult.id = submission[r]
                       /\ readResult.rows = <<RowOf(r)>>
                       /\ RowOf(r).validationResult = JSONStringify(vResult[r])
    /\ store = {readResult.rows[1]}

\* C21: what getSubmissions returns holds every row of the store once, the
\* rows without an outcome among them, a row created later never after one
\* created earlier; the step of getSubmissions leaves the store as it was.
C21_GetSubmissionsListsAll ==
    /\ [](readResult.op = "getSubmissions" =>
            LET rows == readResult.rows
            IN  /\ {rows[i] : i \in 1..Len(rows)} = store
                /\ Len(rows) = Cardinality(store)
                /\ \A i, j \in 1..Len(rows) :
                      i < j => rows[i].createdAt >= rows[j].createdAt)
    /\ [][readResult'.op = "getSubmissions" => store' = store]_vars

\* getSubmissions returned two rows, the later one first: a row whose
\* outcome is attached and the row of a run still waiting for the model.
C21_Witness ==
    /\ readResult.op = "getSubmissions"
    /\ Len(readResult.rows) = 2
    /\ readResult.rows[1].createdAt > readResult.rows[2].createdAt
    /\ \E i, j \in 1..2 :
          /\ readResult.rows[i].validationResult = SQLNull
          /\ readResult.rows[j].validationResult # SQLNull
    /\ \E r \in Runs : /\ pc[r] = "validate"
                       /\ submission[r] = readResult.rows[1].id

\* C22: the prompt of a model call holds, as they are, the fullName, the
\* email, the phone and the experience of the request, its skills in their
\* order with a comma and a space between them, and the whole extracted
\* text.
C22_PromptCarriesDeclaredData ==
    \A r \in Runs :
        calls[r].model = 1 =>
            LET p == prompt[r]
                skills == input[r].skills
            IN  /\ Contains(p, input[r].fullName)
                /\ Contains(p, input[r].email)
                /\ Contains(p, input[r].phone)
                /\ Contains(p, input[r].experience)
                /\ \E i \in 1..Len(p) :
                      \A k \in 1..Len(skills) :
                          /\ i + 2 * k - 2 <= Len(p)
                          /\ p[i + 2 * k - 2] = skills[k]
                          /\ k < Len(skills) => p[i + 2 * k - 1] = ", "
                /\ pdfText[r] # <<>>
                /\ IsSubSeq(pdfText[r], p)

\* The model was called for a request with two skills: the prompt holds
\* them joined and the whole extracted text, longer than eight lexemes.
C22_Witness ==
    \E r \in Runs :
        /\ calls[r].model = 1
        /\ Len(input[r].skills) = 2
        /\ IsSubSeq(<<"Skills:", input[r].skills[1], ", ", input[r].skills[2],
                      "-", "Experience:">>, prompt[r])
        /\ Len(pdfText[r]) > 8
        /\ IsSubSeq(pdfText[r], prompt[r])

C24_OnePass ==
    \A r \in Runs :
        /\ calls[r].insert <= 1
        /\ calls[r].model <= 1
        /\ calls[r].update <= 1
        /\ calls[r].model >= 1 => calls[r].insert = 1
        /\ calls[r].update >= 1 => calls[r].model = 1

\* A run whose model call failed has finished: one INSERT, one model call
\* and one UPDATE were issued.
C24_Witness ==
    \E r \in Runs :
        /\ pc[r] = "done"
        /\ aiOutcome[r].kind = "error"
        /\ calls[r] = [insert |-> 1, update |-> 1, model |-> 1]

\* C25: every provider failure that signals rate limiting, by its status or
\* by the word quota in its message, gives the quota-exceeded fallback,
\* whatever else its message says.
C25_RateLimitAlwaysQuota ==
    (NormalizedFailure /\ "RateLimited" \in ProviderKinds(normOutcome.err))
    => normalized.value = QuotaFallback

\* The input breaks a rule of the schema: an empty fullName, a malformed
\* email, an empty phone, no skill, an empty experience or no pdfPath.
ViolatesSchema(raw) ==
    \/ "pdfPath" \notin DOMAIN raw
    \/ raw.fullName = ""
    \/ ~IsEmail(raw.email)
    \/ raw.phone = ""
    \/ raw.skills = <<>>
    \/ raw.experience = ""

\* C26: a request whose input breaks the schema is rejected with an error:
\* the resolver never gets the input, no INSERT, UPDATE or model call is
\* issued for it, and the step that rejects it changes neither the store nor
\* the files.
C26_SchemaRejectsEarly ==
    /\ [](\A r \in Runs :
            (pc[r] # "idle" /\ ViolatesSchema(received[r])) =>
                /\ pc[r] = "rejected"
                /\ response[r].kind = "error"
                /\ input[r] = NoInput
                /\ pdfText[r] = <<>>
                /\ calls[r] = NoCalls
                /\ submission[r] = 0)
    /\ [][\A r \in Runs :
            (pc[r] = "idle" /\ pc'[r] = "rejected")
            => store' = store /\ files' = files /\ now' = now]_vars

\* A request with a malformed email was rejected with nothing issued.
C26_Witness ==
    \E r \in Runs :
        /\ pc[r] = "rejected"
        /\ received[r].fullName # ""
        /\ ~IsEmail(received[r].email)
        /\ response[r] = ErrorResponse("BAD_REQUEST")
        /\ calls[r] = NoCalls
        /\ store = {}

\* C27: every submitCV mutation the form sent comes right after an upload
\* that was answered with success, and its pdfPath is the path of that
\* answer; an upload that failed is followed by no mutation; and a submit
\* with no file selected sends nothing.
C27_MutationAfterUpload ==
    /\ [](\A j \in 1..Len(form.sent) :
            /\ form.sent[j].kind = "submitCV" =>
                  /\ j > 1
                  /\ form.sent[j - 1].kind = "upload"
                  /\ form.sent[j - 1].reply.kind = "ok"
                  /\ form.sent[j].input.pdfPath = form.sent[j - 1].reply.path
            /\ (/\ form.sent[j].kind = "upload"
                /\ form.sent[j].reply.kind \notin {"ok", "pending"}
                /\ j < Len(form.sent))
               => form.sent[j + 1].kind = "upload")
    /\ [][(form.pc = "idle" /\ form.file = NoSelection)
            => form'.sent = form.sent]_vars

\* After an upload that failed, a second submit uploaded again and sent the
\* mutation with the path the second upload returned.
C27_Witness ==
    /\ Len(form.sent) = 3
    /\ form.sent[1].kind = "upload"
    /\ form.sent[1].reply.kind = "notOk"
    /\ form.sent[2].kind = "upload"
    /\ form.sent[2].reply.kind = "ok"
    /\ form.sent[3].kind = "submitCV"
    /\ form.sent[3].input.pdfPath = form.sent[2].reply.path
    /\ form.sent[3].input.skills = <<"Go", "SQL">>

\* C28: isUploading is true while an onSubmit that passed the file test is
\* under way and false whenever none is, however the last one ended; a step
\* clears the fields or the selected file only when it is the end of an
\* onSubmit whose mutation returned a validationResult with a truthy
\* isValid.
C28_UploadingFlagAndReset ==
    /\ [](form.isUploading <=> form.pc \in {"upload", "mutate"})
    /\ [][(\/ form.fields # BlankFields /\ form'.fields = BlankFields
           \/ form.file # NoSelection /\ form'.file = NoSelection)
          => /\ form.pc = "mutate"
             /\ form'.pc = "idle"
             /\ IsValidTruthy(form'.validationResult)]_vars

\* An onSubmit whose mutation failed has ended with isUploading false and
\* the fields and the file kept, after one whose upload failed.
C28_Witness ==
    /\ form.pc = "idle"
    /\ ~form.isUploading
    /\ Len(form.sent) = 3
    /\ form.sent[1].reply.kind = "rejects"
    /\ form.sent[3].kind = "submitCV"
    /\ form.validationResult = JSNull
    /\ form.alert = "Failed to submit CV. Please try again."
    /\ form.fields # BlankFields
    /\ form.file # NoSelection

====
